---- MODULE Spec2Model ----
(***************************************************************************)
(* State-machine model of the hw2 command shell (src/hw2/shell.c).         *)
(*                                                                         *)
(* A path or a word is a sequence of components; an absolute path starts   *)
(* with the component "/". So "/bin/ls" is <<"/", "bin", "ls">>, the bare   *)
(* name "ls" is <<"ls">>, and strcat(strcat(dir, "/"), command) is          *)
(* dir \o command.                                                         *)
(***************************************************************************)
EXTENDS Integers, Sequences, FiniteSets, TLC

(***************************************************************************)
(* Bounds of the model.                                                     *)
(***************************************************************************)
\* Number of input lines fgets hands to the loop before end-of-input.
MaxLines == 2

\* Bound: how often init_shell signals its group before it is in the
\* foreground.
MaxSignals == 2

\* Bound: number of add_word calls on the word-count list.
MaxAdds == 4

(***************************************************************************)
(* The environment the shell runs in.                                       *)
(***************************************************************************)
\* A null pointer (getenv of an unset variable, token past the end, ...).
NULL == <<"<null>">>

Root == <<"/">>
Bin  == <<"/", "bin">>
Opt  == <<"/", "opt">>
Home == <<"/", "home">>

\* The file system: absolute path -> kind of the file that exists there.
\* "dir" is a directory, "exe" a program execv can start, "data" a file
\* that exists (stat succeeds) but cannot be executed.
FileSystem ==
    [p \in { Root, Bin, Opt, Home,
             Bin \o <<"ls">>, Opt \o <<"ls">>, Opt \o <<"run">>,
             Bin \o <<"pwd">>, Home \o <<"ls">>, Home \o <<"pwd">>,
             Home \o <<"notes">>, Bin \o <<"run">> } |->
        IF p \in {Root, Bin, Opt, Home} THEN "dir"
        ELSE IF p \in { Home \o <<"notes">>, Bin \o <<"run">> } THEN "data"
        ELSE "exe"]

\* getenv("PATH") of an unset PATH.
NOPATH == << NULL >>

\* Values of the PATH variable: NOPATH (unset) or the string cut at every
\* ':' (so <<>> is the empty string and an empty segment is <<>>).
PathValues ==
    { NOPATH,
      <<>>,
      <<Bin, Opt>>,
      <<Opt, Bin>>,
      << <<>>, Opt >> }

\* Values of the HOME variable.
HomeValues == { NULL, Home }

\* Working directories the shell may be started in.
StartDirs == { Root, Home }

\* White space between the words of an input line.
WS == <<" ">>

\* The input lines fgets may deliver: the words and the white space of the
\* line, in order, without the trailing newline.
Lines ==
    { <<>>,
      << <<"?">> >>,
      << <<"exit">> >>,
      << WS, <<"pwd">> >>,
      << <<"PWD">> >>,
      << <<"cd">> >>,
      << <<"cd">>, WS, <<"home">> >>,
      << <<"cd">>, WS, <<"/", "nodir">> >>,
      << <<"cd">>, WS, Bin, WS, Home >>,
      << Bin \o <<"ls">>, WS, <<"-l">> >>,
      << Home \o <<"notes">> >>,
      << <<"ls">> >>,
      << <<"run">>, WS, <<"x">> >>,
      << <<"nosuch">> >> }


(***************************************************************************)
(* The tokenizer (tokenizer.h; its implementation is not part of the       *)
(* sources at hand).                                                        *)
(***************************************************************************)
\* tokenize(line): the words of the line, in order, white space dropped.
tokenize(l) == SelectSeq(l, LAMBDA w : w # WS)

\* tokens_get_length(tokens)
tokens_get_length(t) == Len(t)

\* tokens_get_token(tokens, n), n counted from 0: NULL past the end.
tokens_get_token(t, n) == IF n < Len(t) THEN t[n + 1] ELSE NULL

(***************************************************************************)
(* Builtin table and lookup.                                                *)
(***************************************************************************)
cmd_table ==
    << [fun |-> "cmd_help", cmd |-> <<"?">>,    doc |-> "show this help menu"],
       [fun |-> "cmd_exit", cmd |-> <<"exit">>, doc |-> "exit the command shell"],
       [fun |-> "cmd_pwd",  cmd |-> <<"pwd">>,  doc |-> "print working directory"],
       [fun |-> "cmd_cd",   cmd |-> <<"cd">>,   doc |-> "change working directory"] >>

\* lookup(cmd): index (from 0) of the first table entry whose name equals
\* cmd, -1 when there is none or cmd is NULL.
lookup(cmd) ==
    LET hits == { i \in 1..Len(cmd_table) : cmd # NULL /\ cmd_table[i].cmd = cmd }
    IN  IF hits = {} THEN -1
        ELSE (CHOOSE i \in hits : \A j \in hits : i <= j) - 1

(***************************************************************************)
(* File system queries.                                                     *)
(***************************************************************************)
\* The absolute path a path names when the working directory is dir.
Resolve(dir, p) ==
    IF p # <<>> /\ Head(p) = "/" THEN p ELSE dir \o p

\* stat(p, &stat_buf) != -1 in working directory dir.
stat(dir, p) == Resolve(dir, p) \in DOMAIN FileSystem

\* chdir(p) == 0 in working directory dir; chdir(NULL) fails with EFAULT.
chdir_ok(dir, p) ==
    /\ p # NULL
    /\ stat(dir, p)
    /\ FileSystem[Resolve(dir, p)] = "dir"

(***************************************************************************)
(* Path resolver.                                                           *)
(***************************************************************************)
\* The tokens strtok(path, ":") yields: the non-empty segments, in order.
strtok(path) == SelectSeq(path, LAMBDA seg : seg # <<>>)

\* The loop of search_path going on after a match: the last match wins.
RECURSIVE search_dirs_last(_, _, _)
search_dirs_last(dir, dirs, command) ==
    IF dirs = <<>> THEN NULL
    ELSE LET candidate == Head(dirs) \o command
             later == search_dirs_last(dir, Tail(dirs), command)
         IN  IF later # NULL THEN later
             ELSE IF stat(dir, candidate) THEN candidate
             ELSE NULL

\* The loop of search_path handing back its last candidate when none
\* exists, instead of NULL.
RECURSIVE search_dirs_leak(_, _, _)
search_dirs_leak(dir, dirs, command) ==
    IF dirs = <<>> THEN NULL
    ELSE LET candidate == Head(dirs) \o command
         IN  IF stat(dir, candidate) \/ Tail(dirs) = <<>> THEN candidate
             ELSE search_dirs_leak(dir, Tail(dirs), command)

\* The loop of search_path over the remaining strtok tokens.
RECURSIVE search_dirs(_, _, _)
search_dirs(dir, dirs, command) ==
    IF dirs = <<>> THEN NULL
    ELSE LET candidate == Head(dirs) \o command
         IN  IF stat(dir, candidate) THEN candidate
             ELSE search_dirs(dir, Tail(dirs), command)

\* search_path(command) with PATH = path_orig, in working directory dir.
search_path(dir, path_orig, command) ==
    IF path_orig = NOPATH THEN NULL
    ELSE search_dirs(dir, strtok(path_orig), command)

\* The loop of search_path keeping the candidates that do not exist.
RECURSIVE search_dirs_keep(_, _, _, _)
search_dirs_keep(dir, dirs, command, live) ==
    IF dirs = <<>> THEN live - 1
    ELSE LET candidate == Head(dirs) \o command
         IN  IF stat(dir, candidate) THEN (live + 1) - 1
             ELSE search_dirs_keep(dir, Tail(dirs), command, live + 1)

\* The blocks search_path has allocated and not freed when its loop is done
\* with the remaining strtok tokens, `live` of them being held on entry:
\* every turn allocates the candidate (line 135); a hit frees the copy of
\* PATH and returns the candidate (lines 138-139), a miss frees the
\* candidate (line 141); past the last token the copy is freed (line 144).
RECURSIVE search_dirs_live(_, _, _, _)
search_dirs_live(dir, dirs, command, live) ==
    IF dirs = <<>> THEN live - 1
    ELSE LET candidate == Head(dirs) \o command
         IN  IF stat(dir, candidate) THEN (live + 1) - 1
             ELSE search_dirs_live(dir, Tail(dirs), command, (live + 1) - 1)

\* The blocks a call of search_path leaves allocated: none when PATH is
\* unset (line 128), else what the loop leaves of the copy of PATH (line
\* 131) and of the candidates.
search_path_live(dir, path_orig, command) ==
    IF path_orig = NOPATH THEN 0
    ELSE search_dirs_live(dir, strtok(path_orig), command, 1)

\* Branch with the PATH search ahead of the file test.
BranchPathFirst(dir, path, t) ==
    IF lookup(tokens_get_token(t, 0)) >= 0 THEN "builtin"
    ELSE IF tokens_get_length(t) > 0
            /\ search_path(dir, path, tokens_get_token(t, 0)) # NULL
        THEN "resolved"
    ELSE IF tokens_get_length(t) > 0 /\ stat(dir, tokens_get_token(t, 0))
        THEN "direct"
    ELSE IF tokens_get_length(t) = 0 THEN "blank"
    ELSE "notfound"

\* Branch without the test for an empty token sequence.
BranchNoBlank(dir, path, t) ==
    IF lookup(tokens_get_token(t, 0)) >= 0 THEN "builtin"
    ELSE IF tokens_get_length(t) > 0 /\ stat(dir, tokens_get_token(t, 0))
        THEN "direct"
    ELSE IF tokens_get_length(t) > 0
            /\ search_path(dir, path, tokens_get_token(t, 0)) # NULL
        THEN "resolved"
    ELSE "notfound"

\* Branch with the file test ahead of the builtin lookup.
BranchFileFirst(dir, path, t) ==
    IF tokens_get_length(t) > 0 /\ stat(dir, tokens_get_token(t, 0))
        THEN "direct"
    ELSE IF lookup(tokens_get_token(t, 0)) >= 0 THEN "builtin"
    ELSE IF tokens_get_length(t) > 0
            /\ search_path(dir, path, tokens_get_token(t, 0)) # NULL
        THEN "resolved"
    ELSE IF tokens_get_length(t) = 0 THEN "blank"
    ELSE "notfound"

\* The branch of the if/else-if chain of main's loop that a token sequence
\* takes.
Branch(dir, path, t) ==
    IF lookup(tokens_get_token(t, 0)) >= 0 THEN "builtin"
    ELSE IF tokens_get_length(t) > 0 /\ stat(dir, tokens_get_token(t, 0))
        THEN "direct"
    ELSE IF tokens_get_length(t) > 0
            /\ search_path(dir, path, tokens_get_token(t, 0)) # NULL
        THEN "resolved"
    ELSE IF tokens_get_length(t) = 0 THEN "blank"
    ELSE "notfound"


(***************************************************************************)
(* State.                                                                   *)
(***************************************************************************)
VARIABLES
    isatty,               \* isatty(STDIN_FILENO), fixed for the run
    PATH,                 \* the PATH variable, fixed for the run
    HOME,                 \* the HOME variable, fixed for the run
    tcpgrp,               \* foreground process group of the terminal
    cwd,                  \* working directory of the shell process
    pc,                   \* where the shell process is in main
    shell_is_interactive, \* global of shell.c
    shell_pgid,           \* global of shell.c
    line_num,             \* local of main
    line,                 \* local of main: the line fgets read
    tokens,               \* local of main: the Token Sequence, NULL if none
    pid,                  \* local of main: what fork returned
    wstatus,              \* local of main: what waitpid stored
    pathname,             \* local of main: what search_path returned
    ret,                  \* value the last builtin handler returned
    live_tokens,          \* Token Sequences allocated and not destroyed
    children,             \* the child processes that exist (not yet reaped)
    nforks,               \* successful forks so far
    nread,                \* lines read so far
    stdout,               \* what was written to standard output, in order
    stderr,               \* what was written to standard error, in order
    exit_status,          \* exit status of the shell process, -1 until it ends
    events,               \* what the current iteration did, in order
    mark,                 \* the state fgets returned the current line in
    linebuf,              \* standard output is a terminal: line buffered
    outbuf,               \* the shell's stdio buffer of standard output
    fd1,                  \* what reached file descriptor 1, in order
    live_paths,           \* search_path results allocated and not freed
    shell_tmodes,         \* global of shell.c: "saved" once tcgetattr ran
    wclist,               \* word_count_l.c: the list, entries in order
    wc_hist,              \* word_count_l.c: the add_word calls so far
    wc_ret,               \* word_count_l.c: what the last add_word returned
    wc_prev               \* word_count_l.c: the list before the last call

vars == << isatty, PATH, HOME, tcpgrp, cwd, pc, shell_is_interactive,
           shell_pgid, line_num, line, tokens, pid, wstatus, pathname, ret,
           live_tokens, children, nforks, nread, stdout, stderr,
           exit_status, events, mark, linebuf, outbuf, fd1, live_paths,
           shell_tmodes, wclist, wc_hist, wc_ret, wc_prev >>

env == << isatty, PATH, HOME, linebuf >>

\* The state of the word-count list, which the shell never touches.
words == << wclist, wc_hist, wc_ret, wc_prev >>

\* Exit statuses of a program a child has become.
ProgStatuses == {0, 1}

\* One write to standard output.
Out(kind, n, p) == [k |-> kind, n |-> n, p |-> p]

\* One line written to standard error by the shell or by a child of it.
Err(who, ctx, msg) == [who |-> who, ctx |-> ctx, msg |-> msg]

\* fprintf(stdout, "%d: ", n)
Prompt(n) == Out("prompt", n, <<>>)

\* A write that ends with a newline: all but the prompt "%d: ".
EndsLine(o) == o.k # "prompt"

\* Writing items makes the C library empty the buffer of standard output:
\* the stream is line buffered (a terminal) and a line is complete.
Flushes(items) ==
    linebuf /\ items # << >> /\ EndsLine(items[Len(items)])

\* printf of items to standard output: they go to the buffer of the
\* stream, and the buffer goes to descriptor 1 when a line is complete on
\* a line-buffered stream.
printf(items) ==
    /\ stdout' = stdout \o items
    /\ outbuf' = IF Flushes(items) THEN << >> ELSE outbuf \o items
    /\ fd1' = IF Flushes(items) THEN fd1 \o outbuf \o items ELSE fd1

\* The buffer of standard output is written to descriptor 1: at exit, at
\* return from main.
fflush ==
    /\ outbuf' = << >>
    /\ fd1' = fd1 \o outbuf

\* fgets on a terminal: the C library first writes out a line-buffered
\* standard output.
fgets_flush ==
    IF isatty /\ linebuf THEN fflush ELSE UNCHANGED << outbuf, fd1 >>

\* The lines cmd_help prints: one per table entry, in table order.
HelpLines == [i \in 1..Len(cmd_table) |-> Out("help", i - 1, cmd_table[i].cmd)]

\* What the loop can be compared against at the end of an iteration: the
\* lengths of the two output streams, the prompt counter, the working
\* directory and the number of forks when the iteration began.
Mark ==
    [ out |-> Len(stdout), err |-> Len(stderr), line_num |-> line_num,
      cwd |-> cwd, nforks |-> nforks ]

(***************************************************************************)
(* The word-count list of word_count_l.c. The list is the Pintos list it   *)
(* is built on (list.h; its implementation is not part of the sources at   *)
(* hand): a sequence of entries, front first.                              *)
(***************************************************************************)
\* The words add_word is called with.
Words == { <<"a">>, <<"b">>, <<"c">> }

\* list_init(list): the empty list.
list_init == << >>

\* list_size(list)
list_size(l) == Len(l)

\* list_push_back(list, elem): elem becomes the last element.
list_push_back(l, e) == Append(l, e)

\* init_words(wclist)
init_words == list_init

\* len_words(wclist)
len_words(l) == list_size(l)

\* The loop of find_word from element i on: the first entry whose word
\* compares equal, as its place in the list; 0 stands for NULL.
RECURSIVE find_from(_, _, _)
find_from(l, word, i) ==
    IF i > list_size(l) THEN 0
    ELSE IF l[i].word = word THEN i
    ELSE find_from(l, word, i + 1)

\* find_word(wclist, word)
find_word(l, word) == find_from(l, word, 1)

\* e is among the things the current iteration has done.
InEvents(e) == \E i \in DOMAIN events : events[i] = e

Init ==
    /\ isatty \in BOOLEAN
    /\ PATH \in PathValues
    /\ HOME \in HomeValues
    /\ tcpgrp \in IF isatty THEN {"shell", "other"} ELSE {"none"}
    /\ cwd \in StartDirs
    /\ pc = "init"
    /\ shell_is_interactive = FALSE
    /\ shell_pgid = "unset"
    /\ line_num = 0
    /\ line = <<>>
    /\ tokens = NULL
    /\ pid = 0
    /\ wstatus = 0
    /\ pathname = NULL
    /\ ret = 0
    /\ live_tokens = 0
    /\ children = {}
    /\ nforks = 0
    /\ nread = 0
    /\ stdout = <<>>
    /\ stderr = <<>>
    /\ exit_status = -1
    /\ events = <<>>
    /\ mark = Mark
    /\ linebuf \in BOOLEAN
    /\ outbuf = << >>
    /\ fd1 = << >>
    /\ live_paths = 0
    /\ shell_tmodes = "unset"
    /\ wclist = init_words
    /\ wc_hist = << >>
    /\ wc_ret = 0
    /\ wc_prev = << >>


(***************************************************************************)
(* init_shell and the first prompt.                                         *)
(***************************************************************************)
\* getpgrp() and getpid() of the shell process: it leads its own group.
getpgrp == "shell"
getpid == "shell"

\* init_shell, one turn of its while loop: the terminal's foreground group
\* is not the shell's, so the shell sends SIGTTIN to its group and stops.
InitShellWait ==
    /\ UNCHANGED << outbuf, fd1, live_paths, shell_tmodes >>
    /\ pc = "init"
    /\ isatty
    /\ tcpgrp # getpgrp
    /\ shell_is_interactive' = isatty
    /\ shell_pgid' = getpgrp
    /\ events' = Append(events, "kill")
    /\ pc' = "stopped"
    /\ UNCHANGED << env, words, mark, tcpgrp, cwd, line_num, line, tokens, pid, wstatus,
                    pathname, ret, live_tokens, children, nforks, nread,
                    stdout, stderr, exit_status >>

\* The job-control shell that started this one moves its group to the
\* foreground and continues it.
Foreground ==
    /\ UNCHANGED << outbuf, fd1, live_paths, shell_tmodes >>
    /\ pc = "stopped"
    /\ tcpgrp' = getpgrp
    /\ pc' = "init"
    /\ UNCHANGED << env, words, mark, cwd, shell_is_interactive, shell_pgid, line_num,
                    line, tokens, pid, wstatus, pathname, ret, live_tokens,
                    children, nforks, nread, stdout, stderr, exit_status,
                    events >>

\* The stopped shell is continued while another group is still in the
\* foreground (or the signal does not stop it at all): the loop of
\* init_shell takes another turn.
Continued ==
    /\ UNCHANGED << outbuf, fd1, live_paths, shell_tmodes >>
    /\ pc = "stopped"
    /\ Len(events) < MaxSignals
    /\ pc' = "init"
    /\ UNCHANGED << env, words, mark, tcpgrp, cwd, shell_is_interactive, shell_pgid,
                    line_num, line, tokens, pid, wstatus, pathname, ret,
                    live_tokens, children, nforks, nread, stdout, stderr,
                    exit_status, events >>

\* init_shell leaving its while loop whatever the foreground group is.
InitShellDoneAnyGroup ==
    /\ UNCHANGED << outbuf, fd1, live_paths >>
    /\ pc = "init"
    /\ shell_is_interactive' = isatty
    /\ shell_pgid' = IF isatty THEN getpid ELSE shell_pgid
    /\ tcpgrp' = IF isatty THEN getpid ELSE tcpgrp
    /\ shell_tmodes' = IF isatty THEN "saved" ELSE shell_tmodes
    /\ events' = IF isatty
                 THEN events \o << "getpid", "tcsetpgrp", "tcgetattr" >>
                 ELSE events
    /\ pc' = "prompt"
    /\ UNCHANGED << env, words, mark, cwd, line_num, line, tokens, pid, wstatus,
                    pathname, ret, live_tokens, children, nforks, nread,
                    stdout, stderr, exit_status >>

\* init_shell from the point where the while loop is left (or skipped):
\* when interactive, shell_pgid = getpid(), tcsetpgrp, tcgetattr (lines
\* 119-122); when not, nothing.
InitShellDone ==
    /\ UNCHANGED << outbuf, fd1, live_paths >>
    /\ pc = "init"
    /\ isatty => tcpgrp = getpgrp
    /\ shell_is_interactive' = isatty
    /\ shell_pgid' = IF isatty THEN getpid ELSE shell_pgid
    /\ tcpgrp' = IF isatty THEN getpid ELSE tcpgrp
    /\ shell_tmodes' = IF isatty THEN "saved" ELSE shell_tmodes
    /\ events' = IF isatty
                 THEN events \o << "getpid", "tcsetpgrp", "tcgetattr" >>
                 ELSE events
    /\ pc' = "prompt"
    /\ UNCHANGED << env, words, mark, cwd, line_num, line, tokens, pid, wstatus,
                    pathname, ret, live_tokens, children, nforks, nread,
                    stdout, stderr, exit_status >>

\* main, lines 158-159: the prompt before the first line.
FirstPrompt ==
    /\ UNCHANGED << live_paths, shell_tmodes >>
    /\ pc = "prompt"
    /\ IF shell_is_interactive
       THEN printf(<< Prompt(line_num) >>)
       ELSE UNCHANGED << stdout, outbuf, fd1 >>
    /\ pc' = "read"
    /\ UNCHANGED << env, words, mark, tcpgrp, cwd, shell_is_interactive, shell_pgid,
                    line_num, line, tokens, pid, wstatus, pathname, ret,
                    live_tokens, children, nforks, nread, stderr,
                    exit_status, events >>

(***************************************************************************)
(* The loop of main: read and parse.                                        *)
(***************************************************************************)
\* fgets returns a line.
ReadLine ==
    /\ UNCHANGED << live_paths, shell_tmodes >>
    /\ pc = "read"
    /\ nread < MaxLines
    /\ \E l \in Lines : line' = l
    /\ fgets_flush
    /\ nread' = nread + 1
    /\ events' = << "fgets" >>
    /\ mark' = Mark
    /\ pc' = "parse"
    /\ UNCHANGED << env, words, tcpgrp, cwd, shell_is_interactive,
                    shell_pgid, line_num, tokens, pid, wstatus, pathname,
                    ret, live_tokens, children, nforks, stdout, stderr,
                    exit_status >>

\* fgets returns NULL at end of input: the loop ends and main returns 0.
ReadEof ==
    /\ UNCHANGED << live_paths, shell_tmodes >>
    /\ pc = "read"
    /\ pc' = "done"
    /\ fflush
    /\ exit_status' = 0
    /\ events' = << "eof" >>
    /\ UNCHANGED << env, words, mark, tcpgrp, cwd, shell_is_interactive, shell_pgid,
                    line_num, line, tokens, pid, wstatus, pathname, ret,
                    live_tokens, children, nforks, nread, stdout, stderr >>

\* tokens = tokenize(line)
Parse ==
    /\ UNCHANGED << outbuf, fd1, live_paths, shell_tmodes >>
    /\ pc = "parse"
    /\ tokens' = tokenize(line)
    /\ live_tokens' = live_tokens + 1
    /\ events' = Append(events, "tokenize")
    /\ pc' = "dispatch"
    /\ UNCHANGED << env, words, mark, tcpgrp, cwd, shell_is_interactive, shell_pgid,
                    line_num, line, pid, wstatus, pathname, ret, children,
                    nforks, nread, stdout, stderr, exit_status >>


(***************************************************************************)
(* Dispatch: the builtins.                                                  *)
(***************************************************************************)
\* The handler main calls for the current token sequence, "none" if the
\* first token is no builtin (main, lines 166-169).
Handler ==
    LET fundex == lookup(tokens_get_token(tokens, 0))
    IN  IF pc = "dispatch" /\ Branch(cwd, PATH, tokens) = "builtin"
        THEN cmd_table[fundex + 1].fun ELSE "none"

\* cmd_help: one line per table entry; returns 1.
cmd_help ==
    /\ UNCHANGED << live_paths, shell_tmodes >>
    /\ Handler = "cmd_help"
    /\ printf(HelpLines)
    /\ ret' = 1
    /\ events' = events \o << "lookup", "cmd_help" >>
    /\ pc' = "nextprompt"
    /\ UNCHANGED << env, words, mark, tcpgrp, cwd, shell_is_interactive, shell_pgid,
                    line_num, line, tokens, pid, wstatus, pathname,
                    live_tokens, children, nforks, nread, stderr,
                    exit_status >>

\* cmd_exit without the tokens_destroy.
cmd_exit_leak ==
    /\ UNCHANGED << live_paths, shell_tmodes >>
    /\ Handler = "cmd_exit"
    /\ fflush
    /\ events' = events \o << "lookup", "cmd_exit", "exit" >>
    /\ exit_status' = 0
    /\ pc' = "exited"
    /\ UNCHANGED << env, words, mark, tcpgrp, cwd, shell_is_interactive, shell_pgid,
                    line_num, line, tokens, pid, wstatus, pathname, ret,
                    live_tokens, children, nforks, nread, stdout, stderr >>

\* cmd_exit: tokens_destroy(tokens), then exit(0); never returns.
cmd_exit ==
    /\ UNCHANGED << live_paths, shell_tmodes >>
    /\ Handler = "cmd_exit"
    /\ live_tokens' = live_tokens - 1
    /\ fflush
    /\ events' = events \o << "lookup", "cmd_exit", "tokens_destroy", "exit" >>
    /\ exit_status' = 0
    /\ pc' = "exited"
    /\ UNCHANGED << env, words, mark, tcpgrp, cwd, shell_is_interactive, shell_pgid,
                    line_num, line, tokens, pid, wstatus, pathname, ret,
                    children, nforks, nread, stdout, stderr >>

\* What cmd_pwd can do. getcwd(NULL, 0) returns the working directory or,
\* when it fails (directory unlinked, no memory), NULL. printf("%s\n", NULL)
\* is undefined: the C library prints "(null)", or the call, compiled to
\* puts(NULL), dereferences the null pointer and the process is killed.
PwdOutcomes == { "cwd", "null_printed", "killed" }

\* cmd_pwd; returns 0.
cmd_pwd ==
    /\ UNCHANGED << live_paths, shell_tmodes >>
    /\ Handler = "cmd_pwd"
    /\ \E o \in PwdOutcomes :
          /\ CASE o = "cwd" -> printf(<< Out("cwd", 0, cwd) >>)
               [] o = "null_printed" -> printf(<< Out("cwd", 0, NULL) >>)
               [] o = "killed" -> UNCHANGED << stdout, outbuf, fd1 >>
          /\ pc' = IF o = "killed" THEN "killed" ELSE "nextprompt"
          /\ ret' = IF o = "killed" THEN ret ELSE 0
          /\ events' = events \o << "lookup", "cmd_pwd", "getcwd" >> \o
                          (IF o = "cwd" THEN << >> ELSE << "getcwd_failed" >>)
    /\ UNCHANGED << env, words, mark, tcpgrp, cwd, shell_is_interactive, shell_pgid,
                    line_num, line, tokens, pid, wstatus, pathname,
                    live_tokens, children, nforks, nread, stderr,
                    exit_status >>

\* cmd_cd going to HOME whatever its arguments.
CdTargetHome(t, home) == home

\* The directory cmd_cd hands to chdir: the second token, or HOME.
CdTarget(t, home) ==
    IF tokens_get_length(t) = 2 THEN tokens_get_token(t, 1) ELSE home

\* cmd_cd; returns 0 on every path.
cmd_cd ==
    /\ UNCHANGED << outbuf, fd1, live_paths, shell_tmodes >>
    /\ Handler = "cmd_cd"
    /\ LET argc == tokens_get_length(tokens)
           target == CdTarget(tokens, HOME)
       IN  IF argc > 2
           THEN /\ stderr' = Append(stderr,
                                Err("shell", <<"cd">>, "too many arguments"))
                /\ cwd' = cwd
                /\ events' = events \o << "lookup", "cmd_cd" >>
           ELSE IF chdir_ok(cwd, target)
           THEN /\ cwd' = Resolve(cwd, target)
                /\ stderr' = stderr
                /\ events' = events \o << "lookup", "cmd_cd", "chdir" >>
           ELSE /\ cwd' = cwd
                /\ stderr' = Append(stderr, Err("shell", <<"cd">>, "errno"))
                /\ events' = events \o
                       << "lookup", "cmd_cd", "chdir", "chdir_failed" >>
    /\ ret' = 0
    /\ pc' = "nextprompt"
    /\ UNCHANGED << env, words, mark, tcpgrp, shell_is_interactive, shell_pgid, line_num,
                    line, tokens, pid, wstatus, pathname, live_tokens,
                    children, nforks, nread, stdout, exit_status >>


(***************************************************************************)
(* Dispatch: external commands, blank lines, unknown commands.              *)
(***************************************************************************)
\* The process fork() creates: a copy of the shell at the fork, in the
\* else-branch of "if ((pid = fork()))" of the branch `via`.
NewChild(via, pn) ==
    [ pid |-> nforks + 1, st |-> "forked", via |-> via, tokens |-> tokens,
      pathname |-> pn, image |-> NULL, argv |-> << >>, status |-> 0,
      live_tokens |-> live_tokens, outbuf |-> outbuf ]

\* pid = fork(): a new child and its pid in the parent, or -1 and no child.
Fork(ok, via, pn) ==
    IF ok
    THEN /\ children' = children \cup { NewChild(via, pn) }
         /\ nforks' = nforks + 1
         /\ pid' = nforks + 1
    ELSE /\ children' = children
         /\ nforks' = nforks
         /\ pid' = -1

\* main, lines 171-174: the first token names an existing file; fork, and
\* the parent goes on to waitpid.
DirectExec ==
    /\ UNCHANGED << outbuf, fd1, live_paths, shell_tmodes >>
    /\ pc = "dispatch"
    /\ Branch(cwd, PATH, tokens) = "direct"
    /\ \E ok \in BOOLEAN :
          /\ Fork(ok, "direct", pathname)
          /\ events' = events \o << "lookup", "stat" >> \o
                          (IF ok THEN << "fork" >> ELSE << "fork_failed" >>)
    /\ pc' = "wait"
    /\ UNCHANGED << env, words, mark, tcpgrp, cwd, shell_is_interactive, shell_pgid,
                    line_num, line, tokens, wstatus, pathname, ret,
                    live_tokens, nread, stdout, stderr, exit_status >>

\* The resolved-path branch without free(pathname).
ResolvedExecNoFree ==
    /\ UNCHANGED << outbuf, fd1, shell_tmodes >>
    /\ pc = "dispatch"
    /\ Branch(cwd, PATH, tokens) = "resolved"
    /\ pathname' = search_path(cwd, PATH, tokens_get_token(tokens, 0))
    /\ live_paths' = live_paths
          + search_path_live(cwd, PATH, tokens_get_token(tokens, 0))
    /\ \E ok \in BOOLEAN :
          /\ Fork(ok, "resolved", pathname')
          /\ events' = events \o << "lookup", "stat", "search_path" >> \o
                          (IF ok THEN << "fork" >> ELSE << "fork_failed" >>)
    /\ pc' = "wait"
    /\ UNCHANGED << env, words, mark, tcpgrp, cwd, shell_is_interactive, shell_pgid,
                    line_num, line, tokens, wstatus, ret, live_tokens,
                    nread, stdout, stderr, exit_status >>

\* main, lines 186-190: search_path found the command; fork, and the parent
\* frees pathname and goes on to waitpid.
ResolvedExec ==
    /\ UNCHANGED << outbuf, fd1, shell_tmodes >>
    /\ pc = "dispatch"
    /\ Branch(cwd, PATH, tokens) = "resolved"
    /\ pathname' = search_path(cwd, PATH, tokens_get_token(tokens, 0))
    /\ live_paths' = live_paths
          + search_path_live(cwd, PATH, tokens_get_token(tokens, 0)) - 1
    /\ \E ok \in BOOLEAN :
          /\ Fork(ok, "resolved", pathname')
          /\ events' = events \o << "lookup", "stat", "search_path" >> \o
                          (IF ok THEN << "fork" >> ELSE << "fork_failed" >>)
                          \o << "free_pathname" >>
    /\ pc' = "wait"
    /\ UNCHANGED << env, words, mark, tcpgrp, cwd, shell_is_interactive, shell_pgid,
                    line_num, line, tokens, wstatus, ret, live_tokens,
                    nread, stdout, stderr, exit_status >>

\* main, line 202: an empty token sequence; nothing is done.
BlankLine ==
    /\ UNCHANGED << outbuf, fd1, live_paths, shell_tmodes >>
    /\ pc = "dispatch"
    /\ Branch(cwd, PATH, tokens) = "blank"
    /\ events' = events \o << "lookup" >>
    /\ pc' = "nextprompt"
    /\ UNCHANGED << env, words, mark, tcpgrp, cwd, shell_is_interactive, shell_pgid,
                    line_num, line, tokens, pid, wstatus, pathname, ret,
                    live_tokens, children, nforks, nread, stdout, stderr,
                    exit_status >>

\* main, lines 203-205: no builtin, no file, not on PATH.
NotFound ==
    /\ UNCHANGED << outbuf, fd1, shell_tmodes >>
    /\ pc = "dispatch"
    /\ Branch(cwd, PATH, tokens) = "notfound"
    /\ pathname' = NULL
    /\ live_paths' = live_paths
          + search_path_live(cwd, PATH, tokens_get_token(tokens, 0))
    /\ stderr' = Append(stderr, Err("shell", tokens_get_token(tokens, 0),
                                    "command not found"))
    /\ events' = events \o << "lookup", "stat", "search_path" >>
    /\ pc' = "nextprompt"
    /\ UNCHANGED << env, words, mark, tcpgrp, cwd, shell_is_interactive, shell_pgid,
                    line_num, line, tokens, pid, wstatus, ret, live_tokens,
                    children, nforks, nread, stdout, exit_status >>

\* The children waitpid(p, &wstatus, 0) can return: the child p, or any
\* child when p is -1, once it has terminated.
Waitable(p) ==
    { c \in children : (p = -1 \/ c.pid = p) /\ c.st = "terminated" }

\* waitpid that returns without waiting for the child (as with WNOHANG).
WaitPidNoHang ==
    /\ UNCHANGED << outbuf, fd1, live_paths, shell_tmodes >>
    /\ pc = "wait"
    /\ events' = Append(events, "waitpid")
    /\ pc' = "nextprompt"
    /\ UNCHANGED << env, words, mark, tcpgrp, cwd, shell_is_interactive, shell_pgid,
                    line_num, line, tokens, pid, wstatus, pathname, ret,
                    live_tokens, children, nforks, nread, stdout, stderr,
                    exit_status >>

\* main, lines 173 and 189: waitpid(pid, &wstatus, 0). It blocks until the
\* child has terminated and reaps it; with no child to wait for (pid is -1
\* after a failed fork) it fails at once with ECHILD.
WaitPid ==
    /\ UNCHANGED << outbuf, fd1, live_paths, shell_tmodes >>
    /\ pc = "wait"
    /\ \/ /\ \E c \in Waitable(pid) :
                /\ children' = children \ {c}
                /\ wstatus' = c.status
          /\ events' = Append(events, "waitpid")
       \/ /\ { c \in children : pid = -1 \/ c.pid = pid } = {}
          /\ UNCHANGED << children, wstatus >>
          /\ events' = Append(events, "waitpid_echild")
    /\ pc' = "nextprompt"
    /\ UNCHANGED << env, words, mark, tcpgrp, cwd, shell_is_interactive, shell_pgid,
                    line_num, line, tokens, pid, pathname, ret, live_tokens,
                    nforks, nread, stdout, stderr, exit_status >>

\* The next prompt with line_num++ in place of ++line_num: the old number
\* is printed.
NextPromptPostInc ==
    /\ UNCHANGED << live_paths, shell_tmodes >>
    /\ pc = "nextprompt"
    /\ IF shell_is_interactive
       THEN /\ line_num' = line_num + 1
            /\ printf(<< Prompt(line_num) >>)
            /\ events' = Append(events, "prompt")
       ELSE UNCHANGED << line_num, stdout, outbuf, fd1, events >>
    /\ pc' = "cleanup"
    /\ UNCHANGED << env, words, mark, tcpgrp, cwd, shell_is_interactive, shell_pgid,
                    line, tokens, pid, wstatus, pathname, ret, live_tokens,
                    children, nforks, nread, stderr, exit_status >>

\* The loop going from dispatch to tokens_destroy with no prompt between.
NextPromptSkipped ==
    /\ UNCHANGED << outbuf, fd1, live_paths, shell_tmodes >>
    /\ pc = "nextprompt"
    /\ pc' = "cleanup"
    /\ UNCHANGED << env, words, mark, tcpgrp, cwd, shell_is_interactive, shell_pgid,
                    line_num, line, tokens, pid, wstatus, pathname, ret,
                    live_tokens, children, nforks, nread, stdout, stderr,
                    exit_status, events >>

\* main, lines 207-209: the prompt for the next line.
NextPrompt ==
    /\ UNCHANGED << live_paths, shell_tmodes >>
    /\ pc = "nextprompt"
    /\ IF shell_is_interactive
       THEN /\ line_num' = line_num + 1
            /\ printf(<< Prompt(line_num + 1) >>)
            /\ events' = Append(events, "prompt")
       ELSE UNCHANGED << line_num, stdout, outbuf, fd1, events >>
    /\ pc' = "cleanup"
    /\ UNCHANGED << env, words, mark, tcpgrp, cwd, shell_is_interactive, shell_pgid,
                    line, tokens, pid, wstatus, pathname, ret, live_tokens,
                    children, nforks, nread, stderr, exit_status >>

\* main, line 212: tokens_destroy(tokens), then back to fgets.
Cleanup ==
    /\ UNCHANGED << outbuf, fd1, live_paths, shell_tmodes >>
    /\ pc = "cleanup"
    /\ live_tokens' = live_tokens - 1
    /\ events' = Append(events, "tokens_destroy")
    /\ pc' = "read"
    /\ UNCHANGED << env, words, mark, tcpgrp, cwd, shell_is_interactive, shell_pgid,
                    line_num, line, tokens, pid, wstatus, pathname, ret,
                    children, nforks, nread, stdout, stderr, exit_status >>

(***************************************************************************)
(* The child processes.                                                     *)
(***************************************************************************)
\* The child handing pathname to execv in both branches.
ExecPathname(c) == c.pathname

\* The path the child hands to execv: the first token in the direct branch
\* (line 181), pathname in the resolved branch (line 197).
ExecPath(c) ==
    IF c.via = "direct" THEN tokens_get_token(c.tokens, 0) ELSE c.pathname

\* execv can start only a program; it can fail for any file.
ExecOutcomes(p) ==
    IF stat(cwd, p) /\ FileSystem[Resolve(cwd, p)] = "exe"
    THEN BOOLEAN ELSE { FALSE }

\* The child without the "return 1" after perror: it goes on in the loop of
\* main as a second shell.
ChildExecNoReturn(c) ==
    /\ UNCHANGED << outbuf, fd1, live_paths, shell_tmodes >>
    /\ c.st = "forked"
    /\ \E ok \in ExecOutcomes(ExecPath(c)) :
          IF ok
          THEN /\ children' = (children \ {c}) \cup
                      { [c EXCEPT !.st = "running", !.image = ExecPath(c),
                                  !.argv = c.tokens, !.live_tokens = 0,
                                  !.outbuf = << >>] }
               /\ stderr' = stderr
               /\ events' = Append(events, "execv")
          ELSE /\ children' = (children \ {c}) \cup
                      { [c EXCEPT !.st = "nextprompt", !.argv = c.tokens] }
               /\ stderr' = Append(stderr, Err("child", ExecPath(c), "errno"))
               /\ events' = events \o << "execv_failed", "perror" >>
    /\ UNCHANGED << env, words, mark, tcpgrp, cwd, pc, shell_is_interactive, shell_pgid,
                    line_num, line, tokens, pid, wstatus, pathname, ret,
                    live_tokens, nforks, nread, stdout, exit_status >>

\* The child, lines 176-183 and 192-199: builds args from the tokens and
\* calls execv. On success the process is the program from then on (its
\* copy of the shell's memory is gone); on failure it prints perror of the
\* path and returns 1 from main, its copy of the Token Sequence as it was:
\* the return from main writes out its copy of the stdio buffer.
ChildExec(c) ==
    /\ UNCHANGED << outbuf, live_paths, shell_tmodes >>
    /\ c.st = "forked"
    /\ \E ok \in ExecOutcomes(ExecPath(c)) :
          IF ok
          THEN /\ children' = (children \ {c}) \cup
                      { [c EXCEPT !.st = "running", !.image = ExecPath(c),
                                  !.argv = c.tokens, !.live_tokens = 0,
                                  !.outbuf = << >>] }
               /\ stderr' = stderr
               /\ fd1' = fd1
               /\ events' = Append(events, "execv")
          ELSE /\ children' = (children \ {c}) \cup
                      { [c EXCEPT !.st = "terminated", !.status = 1,
                                  !.argv = c.tokens, !.outbuf = << >>] }
               /\ stderr' = Append(stderr, Err("child", ExecPath(c), "errno"))
               /\ fd1' = fd1 \o c.outbuf
               /\ events' = events \o << "execv_failed", "perror", "return_1" >>
    /\ UNCHANGED << env, words, mark, tcpgrp, cwd, pc, shell_is_interactive, shell_pgid,
                    line_num, line, tokens, pid, wstatus, pathname, ret,
                    live_tokens, nforks, nread, stdout, exit_status >>

\* The program a child has become terminates.
ChildExit(c) ==
    /\ UNCHANGED << outbuf, fd1, live_paths, shell_tmodes >>
    /\ c.st = "running"
    /\ \E st \in ProgStatuses :
          children' = (children \ {c}) \cup
                         { [c EXCEPT !.st = "terminated", !.status = st] }
    /\ events' = Append(events, "child_exit")
    /\ UNCHANGED << env, words, mark, tcpgrp, cwd, pc, shell_is_interactive, shell_pgid,
                    line_num, line, tokens, pid, wstatus, pathname, ret,
                    live_tokens, nforks, nread, stdout, stderr, exit_status >>

(***************************************************************************)
(* Specifications.                                                          *)
(***************************************************************************)
Next ==
    \/ InitShellWait
    \/ Foreground
    \/ Continued
    \/ InitShellDone
    \/ FirstPrompt
    \/ ReadLine
    \/ ReadEof
    \/ Parse
    \/ cmd_help
    \/ cmd_exit
    \/ cmd_pwd
    \/ cmd_cd
    \/ DirectExec
    \/ ResolvedExec
    \/ BlankLine
    \/ NotFound
    \/ WaitPid
    \/ NextPrompt
    \/ Cleanup
    \/ \E c \in children : ChildExec(c)
    \/ \E c \in children : ChildExit(c)

Spec == Init /\ [][Next]_vars

\* The shell and its children are processes the system keeps scheduling,
\* fgets returns (a line or end of input), and a program a child has become
\* terminates: a step that stays possible is taken.
FairSpec == Spec /\ WF_vars(Next)

(***************************************************************************)
(* The word-count list on its own: calls of add_word on a list that        *)
(* init_words has initialised.                                             *)
(***************************************************************************)
\* The state of the shell, which the word-count list never touches.
shell == << env, mark, tcpgrp, cwd, pc, shell_is_interactive, shell_pgid,
            line_num, line, tokens, pid, wstatus, pathname, ret, live_tokens,
            children, nforks, nread, stdout, stderr, exit_status, events,
            outbuf, fd1, live_paths, shell_tmodes >>

\* add_word that does not look the word up first.
add_word_nofind(word, malloc_ok) ==
    /\ Len(wc_hist) < MaxAdds
    /\ IF malloc_ok
       THEN /\ wclist' = list_push_back(wclist, [word |-> word, count |-> 1])
            /\ wc_ret' = list_size(wclist) + 1
            /\ wc_hist' = Append(wc_hist, [word |-> word, malloc |-> "ok"])
       ELSE /\ wclist' = wclist
            /\ wc_ret' = 0
            /\ wc_hist' = Append(wc_hist, [word |-> word, malloc |-> "failed"])
    /\ wc_prev' = wclist
    /\ UNCHANGED shell

\* add_word(wclist, word): the entry of the word is counted up, or a new
\* entry with count 1 is allocated and pushed to the back; when malloc
\* fails the list is left alone and NULL is returned. malloc is only
\* called for a word that is not in the list.
add_word(word, malloc_ok) ==
    /\ Len(wc_hist) < MaxAdds
    /\ LET wc == find_word(wclist, word)
       IN  IF wc # 0
           THEN /\ wclist' = [wclist EXCEPT ![wc].count = @ + 1]
                /\ wc_ret' = wc
                /\ wc_hist' = Append(wc_hist,
                                     [word |-> word, malloc |-> "none"])
           ELSE IF malloc_ok
           THEN /\ wclist' = list_push_back(wclist,
                                            [word |-> word, count |-> 1])
                /\ wc_ret' = list_size(wclist) + 1
                /\ wc_hist' = Append(wc_hist,
                                     [word |-> word, malloc |-> "ok"])
           ELSE /\ wclist' = wclist
                /\ wc_ret' = 0
                /\ wc_hist' = Append(wc_hist,
                                     [word |-> word, malloc |-> "failed"])
    /\ wc_prev' = wclist
    /\ UNCHANGED shell

\* The shell is not running: one fixed start state of it.
WordInit ==
    /\ Init
    /\ ~isatty /\ ~linebuf
    /\ PATH = NOPATH /\ HOME = NULL /\ cwd = Root

WordNext == \E word \in Words, malloc_ok \in BOOLEAN : add_word(word, malloc_ok)

WordSpec == WordInit /\ [][WordNext]_vars


(***************************************************************************)
(* Properties.                                                              *)
(***************************************************************************)
\* The first token of the current token sequence.
FirstToken == tokens_get_token(tokens, 0)

\* The current iteration has gone through the if/else-if chain of main.
Dispatched == tokens # NULL /\ InEvents("lookup")

\* The current iteration forked, or tried to.
Forked == InEvents("fork") \/ InEvents("fork_failed")

\* C1: when the first token of a line equals a builtin name, the iteration
\* runs that builtin's handler in the shell process and forks no child,
\* also when a file of that name exists or can be found through PATH.
C1_BuiltinNoChild ==
    (Dispatched /\ lookup(FirstToken) >= 0) =>
        /\ InEvents(cmd_table[lookup(FirstToken) + 1].fun)
        /\ ~Forked
        /\ ~InEvents("stat")
        /\ ~InEvents("search_path")
        /\ children = {}
        /\ nforks = mark.nforks

\* C1, its case: pwd has run as a builtin in a directory that holds a file
\* named pwd, with another pwd reachable through PATH.
C1_Witness ==
    /\ Dispatched
    /\ FirstToken = <<"pwd">>
    /\ InEvents("cmd_pwd")
    /\ stat(cwd, FirstToken)
    /\ search_path(cwd, PATH, FirstToken) # NULL

\* C2: there is never more than one child, and the shell is at fgets (or
\* anywhere but its waitpid) only when no child exists, fork having
\* succeeded or failed.
C2_OneChild ==
    /\ Cardinality(children) <= 1
    /\ pc # "wait" => children = {}
    /\ pc = "wait" => \A c \in children : c.pid = pid

\* C2, its case: a line whose fork failed has been completed after a line
\* whose child was created and reaped.
C2_Witness ==
    /\ pc = "read"
    /\ InEvents("fork_failed")
    /\ InEvents("waitpid_echild")
    /\ nforks >= 1
    /\ children = {}

\* C2, its other case: the shell waits for the second child it created.
C2_WitnessChild ==
    /\ pc = "wait"
    /\ nforks = 2
    /\ Cardinality(children) = 1


\* What every child of the current iteration does: it hands execv the path
\* p and, as arguments, the whole token sequence.
ChildRuns(p) ==
    \A c \in children :
        /\ ExecPath(c) = p
        /\ c.tokens = tokens
        /\ c.st = "running" => (c.image = p /\ c.argv = tokens)
        /\ c.st = "terminated" /\ c.image = NULL => c.status = 1

\* C3 as stated: whenever the first token is a path to an existing file,
\* the shell forks a child (the fork itself may fail) that executes the
\* first token, and search_path is not called.
C3_AsStated ==
    (Dispatched /\ tokens_get_length(tokens) > 0 /\ stat(cwd, FirstToken)) =>
        /\ Forked
        /\ ~InEvents("search_path")
        /\ ChildRuns(FirstToken)

\* C3, amended: when the first token is not a builtin name and is a path to
\* an existing file, search_path is not called and the shell forks; if the
\* fork succeeds, the child hands exactly the first token to execv, with
\* the whole token sequence as arguments.
C3_DirectExec ==
    (Dispatched /\ lookup(FirstToken) < 0
        /\ tokens_get_length(tokens) > 0 /\ stat(cwd, FirstToken)) =>
        /\ Forked
        /\ ~InEvents("search_path")
        /\ InEvents("fork") => nforks = mark.nforks + 1
        /\ InEvents("fork_failed") => nforks = mark.nforks /\ children = {}
        /\ ChildRuns(FirstToken)

\* C3, its case: the child of a line naming /bin/ls is running /bin/ls while
\* PATH holds another ls in a directory that comes first.
C3_Witness ==
    /\ Dispatched
    /\ FirstToken = Bin \o <<"ls">>
    /\ PATH = << Opt, Bin >>
    /\ \E c \in children : c.st = "running" /\ c.image = FirstToken


\* The places of PATH, counted from the left, whose directory holds the
\* name: the non-empty segments d with a file d/name.
PathHits(name) ==
    IF PATH = NOPATH THEN {}
    ELSE { i \in 1..Len(PATH) : PATH[i] # <<>> /\ stat(cwd, PATH[i] \o name) }

\* <dir>/<name> for the leftmost directory of PATH that holds the name.
LeftmostMatch(name) ==
    PATH[CHOOSE i \in PathHits(name) : \A j \in PathHits(name) : i <= j]
        \o name

\* A bare name: one component, no directory part.
IsBareName(t) == Len(t) = 1 /\ t # Root /\ t # NULL

\* C4 as stated: whenever the first token is a bare name that some directory
\* of PATH holds, the shell forks a child (the fork itself may fail) that
\* executes <dir>/<name> of the leftmost such directory, wherever else a
\* file of that name exists.
C4_AsStated ==
    (Dispatched /\ tokens_get_length(tokens) > 0 /\ IsBareName(FirstToken)
        /\ PathHits(FirstToken) # {}) =>
        /\ Forked
        /\ ChildRuns(LeftmostMatch(FirstToken))

\* C4, amended: when the first token is a bare name that is no builtin name
\* and names no existing file in the working directory, and some directory
\* of PATH holds it, the shell calls search_path and forks; if the fork
\* succeeds, the child hands execv <dir>/<name> of the leftmost directory
\* of PATH that holds the name.
C4_FirstMatchWins ==
    (Dispatched /\ tokens_get_length(tokens) > 0 /\ IsBareName(FirstToken)
        /\ lookup(FirstToken) < 0 /\ ~stat(cwd, FirstToken)
        /\ PathHits(FirstToken) # {}) =>
        /\ Forked
        /\ InEvents("search_path")
        /\ pathname = LeftmostMatch(FirstToken)
        /\ InEvents("fork") => nforks = mark.nforks + 1
        /\ InEvents("fork_failed") => nforks = mark.nforks /\ children = {}
        /\ ChildRuns(LeftmostMatch(FirstToken))

\* C4, its case: ls is in both directories of PATH and the child runs the
\* one of the first directory, /opt/ls.
C4_Witness ==
    /\ Dispatched
    /\ FirstToken = <<"ls">>
    /\ PATH = << Opt, Bin >>
    /\ Cardinality(PathHits(FirstToken)) = 2
    /\ \E c \in children : c.st = "running" /\ c.image = Opt \o <<"ls">>


\* What the current iteration has written to standard error and to standard
\* output so far.
IterErr == SubSeq(stderr, mark.err + 1, Len(stderr))
IterOut == SubSeq(stdout, mark.out + 1, Len(stdout))

\* The shell process has ended.
Ended == pc \in { "done", "exited", "killed" }

\* C5: for a first token that is no builtin, no existing file and in no
\* directory of PATH (PATH unset included), the iteration writes exactly one
\* line to standard error, "<first token>: command not found", forks
\* nothing, and the shell goes on to the next line.
C5_NotFound ==
    (Dispatched /\ tokens_get_length(tokens) > 0 /\ lookup(FirstToken) < 0
        /\ ~stat(cwd, FirstToken) /\ PathHits(FirstToken) = {}) =>
        /\ IterErr = << Err("shell", FirstToken, "command not found") >>
        /\ ~Forked
        /\ children = {}
        /\ nforks = mark.nforks
        /\ pc \in { "nextprompt", "cleanup", "read" }

\* C5, its case: with PATH unset, the line nosuch has been answered and the
\* shell is back at fgets.
C5_Witness ==
    /\ Dispatched
    /\ FirstToken = <<"nosuch">>
    /\ PATH = NOPATH
    /\ pc = "read"
    /\ Len(IterErr) = 1


\* C6 as stated: from the dispatch of any line other than exit the shell
\* reaches the next fgets, and nothing after init_shell changes the session
\* state.
C6_AsStated ==
    /\ (pc = "dispatch" /\ Handler # "cmd_exit") ~> (pc = "read")
    /\ [][pc \notin { "init", "stopped" } =>
            UNCHANGED << shell_is_interactive, shell_pgid, tcpgrp >>]_vars

\* Something failed in the current iteration: fork, getcwd, chdir, execv,
\* the argument count of cd, or the search for the command.
Failed ==
    \/ InEvents("fork_failed")
    \/ InEvents("getcwd_failed")
    \/ InEvents("chdir_failed")
    \/ InEvents("execv_failed")
    \/ InEvents("cmd_cd") /\ tokens_get_length(tokens) > 2
    \/ InEvents("search_path") /\ ~Forked

\* C7 as stated: an iteration in which something failed ends with exactly
\* one line written to standard error and the shell at the next fgets.
C7_AsStated ==
    /\ (pc = "read" /\ Dispatched /\ Failed) => Len(IterErr) = 1
    /\ (Dispatched /\ Failed) => ~Ended

\* C8: cd with one token goes to HOME, with two tokens to the second token,
\* and the working directory is then the directory chdir was given if
\* chdir succeeded, the old one (and one error line) if it failed; with
\* more tokens chdir is not called, the working directory stays and the
\* usage error is written. The handler returns 0 every time.
C8_Cd ==
    (Dispatched /\ FirstToken = <<"cd">>) =>
        LET argc == tokens_get_length(tokens)
            target == IF argc = 1 THEN HOME ELSE tokens_get_token(tokens, 1)
        IN  /\ ret = 0
            /\ argc > 2 =>
                  /\ ~InEvents("chdir")
                  /\ cwd = mark.cwd
                  /\ IterErr = << Err("shell", <<"cd">>, "too many arguments") >>
            /\ argc <= 2 =>
                  /\ InEvents("chdir")
                  /\ IF chdir_ok(mark.cwd, target)
                     THEN cwd = Resolve(mark.cwd, target) /\ IterErr = << >>
                     ELSE /\ cwd = mark.cwd
                          /\ IterErr = << Err("shell", <<"cd">>, "errno") >>

\* C8, its case: after the help builtin returned 1, "cd home" entered in /
\* has moved the shell to /home although HOME is unset, and returned 0.
C8_Witness ==
    /\ Dispatched
    /\ FirstToken = <<"cd">>
    /\ tokens_get_length(tokens) = 2
    /\ HOME = NULL
    /\ mark.cwd = Root
    /\ cwd = Home
    /\ Len(stdout) >= Len(HelpLines)

\* C9: once exit has run, the Token Sequence was destroyed before the exit,
\* the status is 0, the iteration has printed nothing and forked nothing,
\* and the process takes no further step.
C9_Exit ==
    pc = "exited" =>
        /\ exit_status = 0
        /\ live_tokens = 0
        /\ events = << "fgets", "tokenize", "lookup", "cmd_exit",
                       "tokens_destroy", "exit" >>
        /\ IterOut = << >>
        /\ IterErr = << >>
        /\ children = {}
        /\ nforks = mark.nforks
        /\ ~ENABLED Next

\* C9, its case: exit was the second line, after a line that ran a child.
C9_Witness ==
    /\ pc = "exited"
    /\ nread = 2
    /\ nforks = 1

Prompts == SelectSeq(stdout, LAMBDA o : o.k = "prompt")

\* The prompts numbered 0 to n, in order.
PromptsTo(n) == [i \in 1..(n + 1) |-> Prompt(i - 1)]

\* The lines whose dispatch has been followed by the prompt code of lines
\* 207-209.
Processed == IF pc \in { "parse", "dispatch", "wait", "nextprompt" }
             THEN nread - 1 ELSE nread

C12_AsStated ==
    /\ live_tokens \in { 0, 1 }
    /\ pc \in { "read", "done", "exited" } => live_tokens = 0
    /\ pc \in { "dispatch", "wait", "nextprompt", "cleanup" }
          => live_tokens = 1
    /\ \A c \in children :
          (c.st = "terminated" /\ c.image = NULL) => c.live_tokens = 0

\* C12, the part about the shell process alone.
C12_ShellOnly ==
    /\ live_tokens \in { 0, 1 }
    /\ pc \in { "read", "done", "exited" } => live_tokens = 0
    /\ pc \in { "dispatch", "wait", "nextprompt", "cleanup" }
          => live_tokens = 1


\* The exit statuses of the processes that ran the shell's code to its end:
\* 1 exactly for the children whose execv failed.
ChildStatuses ==
    \A c \in children :
        (c.st = "terminated" /\ c.image = NULL) => c.status = 1

\* C13 as stated: end of input ends the shell with status 0; the shell ends
\* only at end of input or in the exit builtin, with status 0; status 1
\* comes only from a child whose execv failed.
C13_AsStated ==
    /\ pc = "done" => (exit_status = 0 /\ events = << "eof" >>)
    /\ Ended => (pc \in { "done", "exited" } /\ exit_status = 0)
    /\ ~Ended => exit_status = -1
    /\ ChildStatuses

\* C13, but for the shell killed inside cmd_pwd.
C13_UnlessKilled == pc # "killed" => C13_AsStated

\* The path the child of the current iteration hands to execv.
IterExecPath ==
    IF Branch(mark.cwd, PATH, tokens) = "direct" THEN FirstToken ELSE pathname

Expected(name) ==
    IF PathHits(name) = {} THEN NULL ELSE LeftmostMatch(name)

\* C15: when an iteration has called search_path, the result is
\* <dir>/<command> for the leftmost directory of PATH in which a file of
\* that name exists, program or not, and NULL when there is none or PATH is
\* unset or empty; a call that returns NULL leaves no block allocated, a
\* call that returns a path leaves exactly one, the path, and after the
\* caller's free nothing of the call is left.
C15_SearchPath ==
    (InEvents("search_path") /\ pc \in { "wait", "nextprompt" }) =>
        LET r == search_path(cwd, PATH, FirstToken)
            n == search_path_live(cwd, PATH, FirstToken)
        IN  /\ pathname = r
            /\ r = Expected(FirstToken)
            /\ (PATH = NOPATH \/ PATH = << >>) => r = NULL
            /\ n = IF r = NULL THEN 0 ELSE 1
            /\ live_paths = 0
            /\ r # NULL <=> Forked

\* C15 is not vacuous: with PATH = /bin:/opt the command "run" exists in
\* both directories, in /bin as a file that is no program; search_path has
\* returned /bin/run, a child was forked for it, and the first line of the
\* session found nothing in the same PATH.
C15_Witness ==
    /\ pc = "wait"
    /\ nread = 2
    /\ InEvents("search_path")
    /\ PATH = << Bin, Opt >>
    /\ FirstToken = <<"run">>
    /\ pathname = Bin \o <<"run">>
    /\ FileSystem[pathname] = "data"
    /\ stat(cwd, Opt \o <<"run">>)
    /\ InEvents("fork")
    /\ Len(stderr) = 1
    /\ stderr[1].msg = "command not found"

\* How often e is among the events of the current iteration.
Count(e) == Cardinality({ i \in DOMAIN events : events[i] = e })

\* Where e is first among the events of the current iteration, 0 if it is
\* not.
Pos(e) ==
    IF InEvents(e)
    THEN CHOOSE i \in DOMAIN events :
            events[i] = e /\ \A j \in 1..(i - 1) : events[j] # e
    ELSE 0

\* C16 as stated: in the resolved-path branch the resolved path is still
\* held while the shell waits for the child, and is released once the wait
\* has returned.
C16_AsStated ==
    /\ (pc = "wait" /\ InEvents("search_path")) =>
          (live_paths = 1 /\ ~InEvents("free_pathname"))
    /\ InEvents("free_pathname") =>
          (InEvents("waitpid") /\ Pos("waitpid") < Pos("free_pathname"))

\* What the iteration may do once the resolved path is freed: wait, print
\* the prompt, destroy the tokens; the child goes its own way with its own
\* copy. None of these takes the parent's pathname.
AfterFree ==
    { "waitpid", "waitpid_echild", "prompt", "tokens_destroy", "execv",
      "execv_failed", "perror", "return_1", "child_exit" }

\* C16, amended: the parent frees the resolved path exactly once per
\* successful resolution, right after fork has returned (whether or not it
\* created a child) and before it waits; nothing of it is held while the
\* shell waits, and nothing the iteration does afterwards uses it. An
\* iteration that resolved nothing frees nothing.
C16_FreeBeforeWait ==
    /\ live_paths = 0
    /\ (InEvents("search_path") /\ Forked) =>
          /\ Count("free_pathname") = 1
          /\ Pos("free_pathname") = Pos("search_path") + 2
          /\ events[Pos("search_path") + 1] \in { "fork", "fork_failed" }
          /\ \A i \in DOMAIN events :
                i > Pos("free_pathname") => events[i] \in AfterFree
          /\ \A i \in DOMAIN events :
                events[i] \in { "waitpid", "waitpid_echild" }
                    => i > Pos("free_pathname")
    /\ InEvents("free_pathname") =>
          (InEvents("search_path") /\ Forked /\ pathname # NULL)

\* C16 is not vacuous: the shell waits for a child of the resolved-path
\* branch that is running its program, and the path is already freed.
C16_Witness ==
    /\ pc = "wait"
    /\ InEvents("search_path")
    /\ InEvents("free_pathname")
    /\ ~InEvents("waitpid")
    /\ live_paths = 0
    /\ \E c \in children : c.st = "running" /\ c.image = pathname

\* The events that end an iteration: the prompt for the next line and the
\* release of the Token Sequence.
Closing == { "prompt", "tokens_destroy" }

\* C17 as stated: the Token Sequence of a line is released before the prompt
\* for the next line is printed, and dispatch is over before either.
C17_AsStated ==
    /\ InEvents("prompt") =>
          (InEvents("tokens_destroy") /\ Pos("tokens_destroy") < Pos("prompt"))
    /\ pc = "cleanup" => ~InEvents("prompt")
    /\ pc \in { "dispatch", "wait", "nextprompt" } =>
          \A i \in DOMAIN events : events[i] \notin Closing

\* C17, amended: an iteration goes Read, Parse, Dispatch, Prompt, Cleanup.
\* Nothing of the closing steps happens before dispatch is over; the prompt
\* for the next line (interactive mode only) is printed while the Token
\* Sequence is still held, and the release follows it directly and is the
\* last thing the iteration does before the next Read.
C17_PromptThenCleanup ==
    /\ pc \in { "parse", "dispatch", "wait", "nextprompt", "cleanup" } =>
          events[1] = "fgets"
    /\ pc \in { "dispatch", "wait", "nextprompt", "cleanup" } =>
          events[2] = "tokenize"
    /\ pc \in { "dispatch", "wait", "nextprompt" } =>
          \A i \in DOMAIN events : events[i] \notin Closing
    /\ pc \in { "nextprompt", "cleanup" } => (Dispatched /\ children = {})
    /\ pc = "cleanup" =>
          /\ live_tokens = 1
          /\ ~InEvents("tokens_destroy")
          /\ shell_is_interactive <=> InEvents("prompt")
          /\ shell_is_interactive =>
                /\ events[Len(events)] = "prompt"
                /\ Count("prompt") = 1
                /\ stdout[Len(stdout)] = Prompt(line_num)
    /\ (pc = "read" /\ nread > 0) =>
          /\ live_tokens = 0
          /\ events[Len(events)] = "tokens_destroy"
          /\ Count("tokens_destroy") = 1
          /\ shell_is_interactive =>
                Pos("prompt") = Pos("tokens_destroy") - 1
          /\ ~shell_is_interactive => ~InEvents("prompt")
          /\ \A i \in 1..(Len(events) - 1) :
                events[i] \in Closing => events[i + 1] \in Closing

\* C17 is not vacuous: in interactive mode, after a line that ran a program
\* in a child, the prompt for the second line is on standard output and the
\* Token Sequence of the first is still held.
C17_Witness ==
    /\ pc = "cleanup"
    /\ shell_is_interactive
    /\ InEvents("waitpid")
    /\ InEvents("child_exit")
    /\ live_tokens = 1
    /\ events[Len(events)] = "prompt"
    /\ stdout = << Prompt(0), Prompt(1) >>

\* What init_shell does once its loop is left, in order.
Claiming == << "getpid", "tcsetpgrp", "tcgetattr" >>

\* The state part of C18. Not interactive: no signal is sent, the terminal
\* is not touched, shell_pgid and shell_tmodes stay as they were at the
\* start, in every state of the process. Interactive: while init_shell is in
\* its loop there are only signals, no prompt and no read, and the snapshot
\* is not taken; when init_shell is done the events are some signals and
\* then getpid, tcsetpgrp, tcgetattr, in that order, with nothing printed
\* or read yet; and from then on the shell's id is the recorded group, the
\* foreground group, and the snapshot is there.
C18_State ==
    /\ ~isatty =>
          /\ ~shell_is_interactive
          /\ ~InEvents("kill")
          /\ ~InEvents("tcsetpgrp") /\ ~InEvents("tcgetattr")
          /\ tcpgrp = "none"
          /\ shell_pgid = "unset"
          /\ shell_tmodes = "unset"
          /\ pc # "stopped"
    /\ (isatty /\ pc \in { "init", "stopped" }) =>
          /\ \A i \in DOMAIN events : events[i] = "kill"
          /\ pc = "stopped" => (events # << >> /\ shell_pgid = getpgrp)
          /\ shell_tmodes = "unset"
          /\ stdout = << >> /\ nread = 0
    /\ (isatty /\ pc = "prompt") =>
          LET n == Len(events)
          IN  /\ n >= 3
              /\ SubSeq(events, n - 2, n) = Claiming
              /\ \A i \in 1..(n - 3) : events[i] = "kill"
              /\ stdout = << >> /\ nread = 0
    /\ (isatty /\ pc \notin { "init", "stopped" }) =>
          /\ shell_is_interactive
          /\ shell_pgid = getpid
          /\ tcpgrp = getpid
          /\ shell_tmodes = "saved"

\* The step part of C18, interactive: init_shell gets past its loop only in
\* a state where the foreground group is the shell's group; in any other
\* state its next step is one more signal to its group.
C18_Step ==
    /\ (isatty /\ pc = "init" /\ pc' = "prompt") => tcpgrp = getpgrp
    /\ (isatty /\ pc = "init" /\ tcpgrp # getpgrp) =>
          (pc' = "stopped" /\ events' = Append(events, "kill"))
    /\ shell_tmodes' # shell_tmodes =>
          (pc = "init" /\ isatty /\ tcpgrp = getpgrp /\ stdout = << >>)

\* C18: startup ordering of terminal ownership, in both modes.
C18_Startup == [](C18_State) /\ [][C18_Step]_vars

\* C18 is not vacuous: an interactive shell that was not in the foreground
\* has signalled its group twice (it was continued once while still in the
\* background), was then put in the foreground, and has made its three
\* calls; the first prompt is not printed yet.
C18_Witness ==
    /\ isatty
    /\ pc = "prompt"
    /\ events = << "kill", "kill" >> \o Claiming
    /\ shell_pgid = getpid
    /\ shell_tmodes = "saved"
    /\ stdout = << >>

\* The lines of the builtins among some output: help text, directories.
BuiltinLines(out) == SelectSeq(out, LAMBDA o : o.k \in { "help", "cwd" })

\* C19 as stated: the lines the builtins have written are, in order and
\* each exactly once, what has reached descriptor 1 followed by what the
\* shell still holds in its buffer; when the shell has ended by end of
\* input or exit, all of them have reached descriptor 1, each once.
C19_AsStated ==
    /\ BuiltinLines(fd1 \o outbuf) = BuiltinLines(stdout)
    /\ pc \in { "done", "exited" } => BuiltinLines(fd1) = BuiltinLines(stdout)

\* With standard output a terminal nothing is ever written twice: a child
\* is forked with an empty buffer, since the builtins' lines leave the
\* buffer with their newline and a prompt leaves it when fgets reads the
\* terminal.
C19_LineBuffered ==
    linebuf =>
        /\ fd1 \o outbuf = stdout
        /\ \A c \in children : c.outbuf = << >>
        /\ pc \in { "done", "exited" } => fd1 = stdout

\* The add_word calls with this word that did not fail to allocate.
Calls(word) ==
    { i \in DOMAIN wc_hist :
        wc_hist[i].word = word /\ wc_hist[i].malloc # "failed" }

\* The words added so far.
Added == { word \in Words : Calls(word) # {} }

\* The first call that added the word.
FirstCall(word) == CHOOSE i \in Calls(word) : \A j \in Calls(word) : i <= j

\* C20: after any sequence of add_word calls on a list initialised by
\* init_words, no two entries hold equal words; the count of an entry is
\* the number of calls with its word that did not fail to allocate, so at
\* least 1; len_words is the number of distinct words added; the entries
\* are in the order in which their words were first added; find_word
\* returns an entry, the one of the word, exactly for the words added; a
\* call whose allocation failed returned NULL and left the list as it was,
\* any other call returned the entry of its word.
C20_WordCount ==
    /\ \A i, j \in DOMAIN wclist :
          wclist[i].word = wclist[j].word => i = j
    /\ \A i \in DOMAIN wclist :
          /\ wclist[i].count = Cardinality(Calls(wclist[i].word))
          /\ wclist[i].count >= 1
    /\ len_words(wclist) = Cardinality(Added)
    /\ \A i, j \in DOMAIN wclist :
          i < j => FirstCall(wclist[i].word) < FirstCall(wclist[j].word)
    /\ \A word \in Words :
          /\ find_word(wclist, word) # 0 <=> word \in Added
          /\ find_word(wclist, word) # 0 =>
                wclist[find_word(wclist, word)].word = word
    /\ wc_hist # << >> =>
          LET last == wc_hist[Len(wc_hist)]
          IN  IF last.malloc = "failed"
              THEN wc_ret = 0 /\ wclist = wc_prev
              ELSE /\ wc_ret # 0
                   /\ wclist[wc_ret].word = last.word
                   /\ last.malloc = "ok" <=> find_word(wc_prev, last.word) = 0

\* C20 is not vacuous: b, a, b were added, then the allocation for c failed:
\* the list is b with count 2 followed by a with count 1, and the last
\* call returned NULL.
C20_Witness ==
    /\ Len(wc_hist) = 4
    /\ wc_hist[4] = [word |-> <<"c">>, malloc |-> "failed"]
    /\ wclist = << [word |-> <<"b">>, count |-> 2],
                   [word |-> <<"a">>, count |-> 1] >>
    /\ wc_ret = 0
    /\ wc_prev = wclist
    /\ find_word(wclist, <<"c">>) = 0
====
